---- MODULE Spec2Model ----
(***************************************************************************)
(* DataReshaper: channel padding/truncation, swizzle and numeric rescale   *)
(* of interleaved pixel data (filament backend).                           *)
(*                                                                         *)
(* Integer component values are held as their object representation: a     *)
(* little-endian sequence of bytes (1 byte for uint8_t, 2 for uint16_t, 4  *)
(* for int32_t / uint32_t, two's complement).  The arithmetic of the C++   *)
(* expression  in * dstMaxValue / srcMaxValue  is evaluated on these with  *)
(* the width of the C++ arithmetic type it is evaluated in.  A float is    *)
(* an IEEE-754 single: sign, 24-bit significand and exponent, rounded to   *)
(* nearest-even after every operation.                                     *)
(***************************************************************************)
EXTENDS Integers, Sequences, FiniteSets, TLC

----------------------------------------------------------------------------
(* Unbounded naturals as little-endian base-256 digit sequences.           *)

Max2(a, b) == IF a >= b THEN a ELSE b

Zeros(n) == [i \in 1..n |-> 0]

Pad(a, len) == IF Len(a) >= len THEN a ELSE a \o Zeros(len - Len(a))

\* a mod 2^(8*len), as exactly len bytes
Low(a, len) == SubSeq(Pad(a, len), 1, len)

RECURSIVE Trim(_)
Trim(a) == IF Len(a) = 0 THEN a
           ELSE IF a[Len(a)] = 0 THEN Trim(SubSeq(a, 1, Len(a) - 1)) ELSE a

RECURSIVE NatBytes(_, _)
NatBytes(n, len) ==
    IF len = 0 THEN <<>> ELSE <<n % 256>> \o NatBytes(n \div 256, len - 1)

RECURSIVE CmpFrom(_, _, _)
CmpFrom(a, b, i) ==
    IF i = 0 THEN 0
    ELSE IF a[i] > b[i] THEN 1
    ELSE IF a[i] < b[i] THEN -1
    ELSE CmpFrom(a, b, i - 1)

\* -1, 0, 1 as a < b, a = b, a > b
Cmp(a, b) ==
    LET n == Max2(Len(a), Len(b)) IN CmpFrom(Pad(a, n), Pad(b, n), n)

IsZero(a) == \A i \in 1..Len(a) : a[i] = 0

RECURSIVE AddFrom(_, _, _, _)
AddFrom(a, b, i, c) ==
    IF i > Len(a) THEN <<c>>
    ELSE <<(a[i] + b[i] + c) % 256>> \o AddFrom(a, b, i + 1, (a[i] + b[i] + c) \div 256)

AddB(a, b) == AddFrom(Pad(a, Max2(Len(a), Len(b))), Pad(b, Max2(Len(a), Len(b))), 1, 0)

RECURSIVE SubFrom(_, _, _, _)
SubFrom(a, b, i, br) ==
    IF i > Len(a) THEN <<>>
    ELSE LET s == a[i] - b[i] - br
         IN  <<(s + 256) % 256>> \o SubFrom(a, b, i + 1, IF s < 0 THEN 1 ELSE 0)

\* a - b for a >= b (modulo 256^n otherwise)
SubB(a, b) ==
    LET n == Max2(Len(a), Len(b)) IN SubFrom(Pad(a, n), Pad(b, n), 1, 0)

RECURSIVE ColSum(_, _, _, _)
ColSum(a, b, k, i) ==
    IF i > Len(a) THEN 0
    ELSE (IF k + 1 - i >= 1 /\ k + 1 - i <= Len(b) THEN a[i] * b[k + 1 - i] ELSE 0)
         + ColSum(a, b, k, i + 1)

RECURSIVE MulFrom(_, _, _, _)
MulFrom(a, b, k, c) ==
    IF k > Len(a) + Len(b) THEN <<>>
    ELSE LET s == ColSum(a, b, k, 1) + c
         IN  <<s % 256>> \o MulFrom(a, b, k + 1, s \div 256)

\* the exact product, Len(a) + Len(b) bytes
MulB(a, b) == MulFrom(a, b, 1, 0)

RECURSIVE QuotDigit(_, _, _, _)
\* the largest d in lo..hi with c * d <= r (c * lo <= r is given)
QuotDigit(c, r, lo, hi) ==
    IF lo = hi THEN lo
    ELSE IF Cmp(MulB(c, <<(lo + hi + 1) \div 2>>), r) <= 0
         THEN QuotDigit(c, r, (lo + hi + 1) \div 2, hi)
         ELSE QuotDigit(c, r, lo, (lo + hi + 1) \div 2 - 1)

\* a quotient digit d put behind the digits of the less significant steps
DivAppend(rest, d) == <<rest[1] \o <<d>>, rest[2]>>

RECURSIVE DivFrom(_, _, _, _)
\* one step of the long division: its digit d is known, its remainder r2 is
\* computed before the next step starts
DivNext(a, c, i, d, r2) ==
    IF Len(r2) >= 0 THEN DivAppend(DivFrom(a, c, i - 1, r2), d) ELSE <<>>

DivDigit(a, c, i, r1, d) == DivNext(a, c, i, d, Trim(SubB(r1, MulB(c, <<d>>))))

DivStep(a, c, i, r1) == DivDigit(a, c, i, r1, QuotDigit(c, r1, 0, 255))

\* long division, most significant digit first; the result is <<quotient, remainder>>
DivFrom(a, c, i, r) ==
    IF i = 0 THEN <<(<<>>), r>> ELSE DivStep(a, c, i, Trim(<<a[i]>> \o r))

\* <<floor(a / c), a mod c>> for c # 0; the quotient has Len(a) bytes
DivMod(a, c) == DivFrom(a, Trim(c), Len(a), <<>>)

\* floor(a / c) for c # 0, Len(a) bytes
DivB(a, c) == DivMod(a, c)[1]

RECURSIVE Pow2Int(_)
Pow2Int(k) == IF k = 0 THEN 1 ELSE 2 * Pow2Int(k - 1)

\* 2^k
Pow2(k) == Zeros(k \div 8) \o <<Pow2Int(k % 8)>>

RECURSIVE BitLenInt(_)
BitLenInt(n) == IF n = 0 THEN 0 ELSE 1 + BitLenInt(n \div 2)

\* the number of significant bits of a
BitLen(a) ==
    LET t == Trim(a)
    IN  IF Len(t) = 0 THEN 0 ELSE 8 * (Len(t) - 1) + BitLenInt(t[Len(t)])

RECURSIVE BytesNat(_)
\* the value of a as a number, for a < 2^31
BytesNat(a) == IF Len(a) = 0 THEN 0 ELSE a[1] + 256 * BytesNat(Tail(a))

----------------------------------------------------------------------------
(* Component types and their values.                                       *)

\* the PixelDataType tags the dispatcher switches on, and two it has no case for
SupportedTypes == {"UBYTE", "FLOAT", "INT", "UINT"}
PixelDataTypes == SupportedTypes \cup {"USHORT", "HALF"}

\* the PixelDataFormat tags the dispatcher switches on, and two it has no case for
PixelDataFormats == {"RGB", "RGBA", "RG", "RGBA_INTEGER"}

\* sizeof(componentType): uint8_t, uint16_t, int32_t, uint32_t, float
SizeOf(T) == CASE T = "UBYTE" -> 1 [] T = "USHORT" -> 2 [] OTHER -> 4

IntCell(b) == [k |-> "int", b |-> b]
FloatCell(neg, m, e) == [k |-> "flt", neg |-> neg, m |-> m, e |-> e]
\* a value the program never determined: the result of reading outside a buffer
Indet == [k |-> "indet"]
\* the caller's guard pattern, in every destination byte before a call
Canary == [k |-> "canary"]

IsNum(c) == c.k \in {"int", "flt"}

\* signed mathematical integers: sign and magnitude
SInt(neg, mag) == [neg |-> neg /\ ~IsZero(mag), mag |-> Trim(mag)]

Two32 == <<0, 0, 0, 0, 1>>
Two31 == <<0, 0, 0, 128>>
IntMaxB == <<255, 255, 255, 127>>
UIntMaxB == <<255, 255, 255, 255>>

\* the integer an object of integer type T with bytes b stands for
ValueOf(T, b) ==
    IF T = "INT" /\ b[4] >= 128 THEN SInt(TRUE, SubB(Two32, b)) ELSE SInt(FALSE, b)

\* x modulo 2^(8*len) in two's complement, as len bytes
Negated(neg, lo, len) ==
    IF neg /\ ~IsZero(lo) THEN Low(SubB(Pow2(8 * len), lo), len) ELSE lo

TwosComplement(x, len) == Negated(x.neg, Low(x.mag, len), len)

InRange(T, x) ==
    CASE T = "INT" -> IF x.neg THEN Cmp(x.mag, Two31) <= 0 ELSE Cmp(x.mag, IntMaxB) <= 0
      [] T = "UINT" -> ~x.neg /\ Cmp(x.mag, UIntMaxB) <= 0
      [] T = "USHORT" -> ~x.neg /\ Cmp(x.mag, <<255, 255>>) <= 0
      [] OTHER -> ~x.neg /\ Cmp(x.mag, <<255>>) <= 0

----------------------------------------------------------------------------
(* IEEE-754 single precision: (-1)^neg * m * 2^e with m = 0 or             *)
(* 2^23 <= m < 2^24, every result rounded to nearest, ties to even.        *)

FloatZero == FloatCell(FALSE, 0, 0)

\* m * 2^e, m just rounded: 2^24 is renormalised
Normal(neg, m, e) ==
    IF m = 16777216 THEN FloatCell(neg, 8388608, e + 1) ELSE FloatCell(neg, m, e)

\* round to nearest, ties to even: c compares the discarded bits with one half
RoundsUp(c, sticky, odd) == c > 0 \/ (c = 0 /\ (sticky \/ odd))

\* ml = <<the 24 leading bits, the discarded bits>> of the quotient
RoundHalf(neg, ml, half, sticky, e) ==
    Normal(neg,
           BytesNat(Trim(ml[1]))
               + (IF RoundsUp(Cmp(ml[2], half), sticky, ml[1][1] % 2 = 1) THEN 1 ELSE 0),
           e)

\* the quotient q of at least 26 bits, s of them to discard
RoundBits(neg, q, sticky, e, s) ==
    RoundHalf(neg, DivMod(q, Pow2(s)), Pow2(s - 1), sticky, e + s)

RoundQuot(neg, qr, e) ==
    RoundBits(neg, Trim(qr[1]), ~IsZero(qr[2]), e, BitLen(qr[1]) - 24)

\* the float nearest to n / d * 2^e0, for naturals n and d # 0: the quotient
\* of n * 2^k by d, k making it at least 26 bits long
RoundScaled(neg, n, d, e0, k) == RoundQuot(neg, DivMod(MulB(n, Pow2(k)), d), e0 - k)

RoundRat(neg, n, d, e0) ==
    IF IsZero(n) THEN FloatZero
    ELSE RoundScaled(neg, n, d, e0, Max2(0, 26 + BitLen(d) - BitLen(n)))

\* (float) x for an integer x
FloatOfInt(x) == RoundRat(x.neg, x.mag, <<1>>, 0)

FMul(a, b) ==
    RoundRat(a.neg # b.neg, MulB(NatBytes(a.m, 3), NatBytes(b.m, 3)), <<1>>, a.e + b.e)

\* a / b for b # 0
FDiv(a, b) ==
    RoundRat(a.neg # b.neg, NatBytes(a.m, 3), NatBytes(b.m, 3), a.e - b.e)

\* the integer part of a float (truncation toward zero)
FTrunc(a) ==
    IF a.e >= 0 THEN SInt(a.neg, MulB(NatBytes(a.m, 3), Pow2(a.e)))
    ELSE SInt(a.neg, DivB(NatBytes(a.m, 3), Pow2(0 - a.e)))

\* 1.0f
FloatOne == FloatCell(FALSE, 8388608, -23)

----------------------------------------------------------------------------
(* The maximum-value table and the arithmetic of                           *)
(*     out[channel] = in[inds[channel]] * dstMaxValue / srcMaxValue        *)

\* variant: std::numeric_limits<componentType>::max(), which the header's
\* comment rules out for floats
numericLimitsMax(T) ==
    CASE T = "FLOAT" -> FloatCell(FALSE, 16777215, 104)
      [] T = "INT" -> IntCell(NatBytes(2147483647, 4))
      [] T = "UINT" -> IntCell(<<255, 255, 255, 255>>)
      [] T = "USHORT" -> IntCell(<<255, 255>>)
      [] T = "UBYTE" -> IntCell(NatBytes(255, 1))

\* getMaxValue<T>(): 1.0f, 0x7fffffff, 0xffffffff, 0x3c00, 0xff
getMaxValue(T) ==
    CASE T = "FLOAT" -> FloatOne
      [] T = "INT" -> IntCell(NatBytes(2147483647, 4))
      [] T = "UINT" -> IntCell(<<255, 255, 255, 255>>)
      [] T = "USHORT" -> IntCell(NatBytes(15360, 2))
      [] T = "UBYTE" -> IntCell(NatBytes(255, 1))

\* getDefaultAlpha<T>() of the single-type header: the same five values
getDefaultAlpha(T) ==
    CASE T = "FLOAT" -> FloatOne
      [] T = "INT" -> IntCell(NatBytes(2147483647, 4))
      [] T = "UINT" -> IntCell(<<255, 255, 255, 255>>)
      [] T = "USHORT" -> IntCell(NatBytes(15360, 2))
      [] T = "UBYTE" -> IntCell(NatBytes(255, 1))

\* The builds.  Signed overflow and an out-of-range float-to-integer
\* conversion are undefined; what a build makes of them is one of:
\*   "wrapping": the product is the low 32 bits (imul); cvttss2si conversions
\*   "folding":  the compiler relies on the absence of overflow and the
\*               product is exact (64-bit registers, x * c / c folded to x);
\*               the conversions saturate (fcvtzs / fcvtzu)
Builds == {"wrapping", "folding"}

\* the type of an operand after the integral promotions
Promoted(T) == CASE T = "FLOAT" -> "float" [] T = "UINT" -> "uint" [] OTHER -> "int"

\* the usual arithmetic conversions
CommonType(x, y) ==
    IF "float" \in {x, y} THEN "float" ELSE IF "uint" \in {x, y} THEN "uint" ELSE "int"

\* an object of type T converted to the arithmetic type at:
\* a signed integer for "int", 4 bytes for "uint", a float for "float"
Operand(at, T, c) ==
    CASE at = "float" -> IF T = "FLOAT" THEN c ELSE FloatOfInt(ValueOf(T, c.b))
      [] at = "uint" -> TwosComplement(ValueOf(T, c.b), 4)
      [] at = "int" -> ValueOf(T, c.b)

\* the int result of an operation whose exact result is p
IntResult(bld, p) ==
    IF InRange("INT", p) \/ bld = "folding" THEN p
    ELSE ValueOf("INT", TwosComplement(p, 4))

\* x * y in the arithmetic type at
Times(at, bld, x, y) ==
    CASE at = "float" -> FMul(x, y)
      [] at = "uint" -> Low(MulB(x, y), 4)
      [] at = "int" -> IntResult(bld, SInt(x.neg # y.neg, MulB(x.mag, y.mag)))

\* x / y in the arithmetic type at (integer division truncates toward zero)
Over(at, x, y) ==
    CASE at = "float" -> FDiv(x, y)
      [] at = "uint" -> Low(DivB(x, y), 4)
      [] at = "int" -> SInt(x.neg # y.neg, DivB(x.mag, y.mag))

\* the integer t, a truncated float, converted to the integer type T
TruncToInt(T, bld, t) ==
    IF InRange(T, t) THEN TwosComplement(t, SizeOf(T))
    ELSE IF bld = "wrapping"
    THEN CASE T = "INT" -> Two31
           [] T = "UINT" -> TwosComplement(t, 4)
           [] OTHER -> IF InRange("INT", t) THEN TwosComplement(t, SizeOf(T))
                       ELSE Zeros(SizeOf(T))
    ELSE CASE T = "INT" -> IF t.neg THEN Two31 ELSE IntMaxB
           [] OTHER -> IF t.neg THEN Zeros(SizeOf(T))
                       ELSE Low(IF Cmp(t.mag, UIntMaxB) > 0 THEN UIntMaxB ELSE t.mag,
                                SizeOf(T))

\* a float converted to the integer type T
FloatToInt(T, bld, f) == TruncToInt(T, bld, FTrunc(f))

\* the value of the expression, of arithmetic type at, stored into an object of type T
Store(T, at, bld, x) ==
    CASE T = "FLOAT" -> x
      [] at = "float" -> IntCell(FloatToInt(T, bld, x))
      [] at = "uint" -> IntCell(Low(x, SizeOf(T)))
      [] at = "int" -> IntCell(TwosComplement(x, SizeOf(T)))

\* in * dstMaxValue / srcMaxValue evaluated in the arithmetic type at and
\* converted to dstComponentType
RescaleIn(dstT, srcT, bld, c, at) ==
    Store(dstT, at, bld,
          Over(at,
               Times(at, bld, Operand(at, srcT, c), Operand(at, dstT, getMaxValue(dstT))),
               Operand(at, srcT, getMaxValue(srcT))))

\* (dstComponentType) (in * dstMaxValue / srcMaxValue) for a source object c
RescaleExpr(dstT, srcT, bld, c) ==
    IF ~IsNum(c) THEN Indet
    ELSE RescaleIn(dstT, srcT, bld, c, CommonType(Promoted(srcT), Promoted(dstT)))

----------------------------------------------------------------------------
(* Bounds of the model.                                                    *)

\* the widest image, in pixels per row
MaxWidth == 2
\* the tallest image, in rows
MaxHeight == 2
\* the most source pixels handed to reshape
MaxWords == 2
\* guard cells the caller keeps behind each destination buffer
GuardCells == 2

----------------------------------------------------------------------------
(* Inputs: the component values the source buffers are filled with.        *)

I32(n) == IntCell(NatBytes(n, 4))

\* three pixels of four components per type; a buffer repeats them
TestPixels ==
    [UBYTE |->
        << <<IntCell(<<10>>), IntCell(<<20>>), IntCell(<<30>>), IntCell(<<255>>)>>,
           <<IntCell(<<40>>), IntCell(<<50>>), IntCell(<<60>>), IntCell(<<255>>)>>,
           <<IntCell(<<0>>), IntCell(<<1>>), IntCell(<<128>>), IntCell(<<254>>)>> >>,
     USHORT |->
        << <<IntCell(<<0, 0>>), IntCell(<<1, 0>>), IntCell(<<0, 60>>), IntCell(<<255, 255>>)>>,
           <<IntCell(<<2, 0>>), IntCell(<<0, 1>>), IntCell(<<255, 0>>), IntCell(<<0, 128>>)>>,
           <<IntCell(<<3, 0>>), IntCell(<<4, 0>>), IntCell(<<5, 0>>), IntCell(<<6, 0>>)>> >>,
     INT |->
        << <<I32(0), I32(1), I32(2), I32(2147483647)>>,
           <<IntCell(<<255, 255, 255, 255>>), I32(16843009), IntCell(<<0, 0, 0, 128>>),
             I32(1073741824)>>,
           <<I32(255), I32(256), I32(8421504), I32(3)>> >>,
     UINT |->
        << <<I32(0), I32(1), I32(2), IntCell(<<255, 255, 255, 255>>)>>,
           <<I32(16843009), IntCell(<<0, 0, 0, 128>>), I32(255), I32(2147483647)>>,
           <<I32(3), I32(256), I32(65536), IntCell(<<254, 255, 255, 255>>)>> >>,
     FLOAT |->
        << <<FloatZero, FloatCell(FALSE, 8388608, -24),                  \* 0, 1/2
             FloatCell(FALSE, 10526881, -28), FloatOne>>,                \* 10/255, 1
           <<FloatCell(FALSE, 8388608, -22), FloatCell(TRUE, 8388608, -23),    \* 2, -1
             FloatCell(FALSE, 11184811, -25), FloatCell(FALSE, 16711680, -24)>>, \* 1/3, 255/256
           <<FloatCell(FALSE, 8421505, -31), FloatCell(FALSE, 16711423, -24),  \* 1/255, 254/255
             FloatCell(FALSE, 12582912, -24), FloatCell(FALSE, 8388608, -25)>> >>, \* 3/4, 1/4
     HALF |->
        << <<Canary, Canary, Canary, Canary>>, <<Canary, Canary, Canary, Canary>>,
           <<Canary, Canary, Canary, Canary>> >>]

\* the components of the test pixels of type T
TestCells(T) == {TestPixels[T][p][c] : p \in 1..3, c \in 1..4}

\* the conversions of the test pixels: <<destination type, source type, build, value>>
RescaleInputs ==
    UNION {{<<d, s, b, c>> : d \in SupportedTypes, b \in Builds, c \in TestCells(s)} :
           s \in SupportedTypes}

\* RescaleExpr on the test pixels, evaluated once
RescaleOnce == [x \in RescaleInputs |-> RescaleExpr(x[1], x[2], x[3], x[4])]

\* RescaleExpr on the converted test pixels, converted back, evaluated once
RescaleBack ==
    [x \in {<<y[2], y[1], y[3], RescaleOnce[y]>> : y \in RescaleInputs} |->
        RescaleExpr(x[1], x[2], x[3], x[4])]

\* RescaleExpr, looked up where it was evaluated before
Rescale(dstT, srcT, bld, c) ==
    IF <<dstT, srcT, bld, c>> \in RescaleInputs THEN RescaleOnce[<<dstT, srcT, bld, c>>]
    ELSE IF <<dstT, srcT, bld, c>> \in DOMAIN RescaleBack
    THEN RescaleBack[<<dstT, srcT, bld, c>>]
    ELSE RescaleExpr(dstT, srcT, bld, c)

\* a buffer of n components of type T: the test pixels from pixel img on, ch
\* components to the pixel
Image(T, img, ch, n) ==
    [i \in 1..n |-> TestPixels[T][((img - 1 + (i - 1) \div ch) % 3) + 1][((i - 1) % ch) + 1]]

Canaries(n) == [i \in 1..n |-> Canary]

----------------------------------------------------------------------------
(* The collaborators the dispatcher calls.                                 *)

Min(a, b) == IF a <= b THEN a ELSE b

\* the channels of a format
ChannelsOf(format) ==
    CASE format = "RG" -> 2 [] format = "RGB" -> 3 [] OTHER -> 4

\* the bytes of a component of a PixelDataType
BytesOf(type) ==
    CASE type = "UBYTE" -> 1 [] type \in {"USHORT", "HALF"} -> 2 [] OTHER -> 4

\* PixelBufferDescriptor::computeDataSize(format, type, stride, height, alignment):
\* rows of stride pixels, each padded to a multiple of alignment
computeDataSize(format, type, stride, height, alignment) ==
    LET bpr == ChannelsOf(format) * BytesOf(type) * stride
        bprAligned == ((bpr + alignment - 1) \div alignment) * alignment
    IN  bprAligned * height


----------------------------------------------------------------------------
(* State.                                                                  *)

\* the calls that can be in progress at once
Threads == {1, 2}

VARIABLES
    build,    \* the build the process runs
    args,     \* args[t]: the arguments of the dispatcher call of thread t
    src,      \* src[t]: the source buffer, a sequence of components
    dst,      \* dst[t]: the destination buffer and the guard cells behind it
    pc,       \* pc[t]: "off", "call" (entered), "loop" (in the kernel), "done"
    frame,    \* frame[f]: the kernel's parameters and locals, one frame per invocation
    ret,      \* ret[t]: the dispatcher's result, FALSE until it returns
    reads,    \* reads[t]: the source components read so far (history)
    flow,     \* flow[t][k]: the source component destination component k was
              \* last written from, -1 for the maximum value (history)
    last,     \* last[t]: the pixel processed last (history)
    first,    \* first[t]: the call whose result the call of t converts back (history)
    rs        \* the arguments, buffers and progress of a reshape call

vars == <<build, args, src, dst, pc, frame, ret, reads, flow, last, first, rs>>

\* variant: the locals of the kernel in static storage, one frame for all calls
SharedFrame(t) == 1

\* the storage of the locals of the invocation of thread t: automatic, its own
Frame(t) == t

NoFrame ==
    [hdr |-> "none", dstT |-> "none", srcT |-> "none", src |-> 0, dest |-> 0,
     srcBytesPerRow |-> 0, dstBytesPerRow |-> 0, dstChannelCount |-> 0, height |-> 0,
     swizzle03 |-> FALSE, row |-> 0, column |-> 0, in |-> 0, out |-> 0]

NoPixel == [row |-> -1, column |-> -1, in |-> 0, out |-> 0]

NoArgs ==
    [hdr |-> "none", format |-> "RGBA", type |-> "UBYTE", srcType |-> "UBYTE",
     srcBytesPerRow |-> 0, dstBytesPerRow |-> 0, width |-> 0, height |-> 0,
     swizzle |-> FALSE, stride |-> 0, alignment |-> 1, img |-> 1]

NoFirst == [args |-> NoArgs, src |-> <<>>, flow |-> <<>>]

NoReshape ==
    [hdr |-> "none", T |-> "UBYTE", srcChannelCount |-> 4, dstChannelCount |-> 4,
     numSrcBytes |-> 0, src |-> <<>>, dest |-> <<>>, state |-> "off"]

\* the destination components written so far
Writes(t) == DOMAIN flow[t]

----------------------------------------------------------------------------
(* The kernel reshapeImage<dstComponentType, srcComponentType>.            *)

srcChannelCount == 4

\* const size_t width = (srcBytesPerRow / sizeof(dstComponentType)) / srcChannelCount
width(f) == (f.srcBytesPerRow \div SizeOf(f.dstT)) \div srcChannelCount

\* variant: a channel loop that runs over all source channels
allSourceChannels(f) == srcChannelCount

minChannelCount(f) == Min(srcChannelCount, f.dstChannelCount)

\* variant: the flag ignored
indsUnswizzled(swizzle03) == <<0, 1, 2, 3>>

\* const int inds[4] = {swizzle03 ? 2 : 0, 1, swizzle03 ? 0 : 2, 3}
inds(swizzle03) == <<IF swizzle03 THEN 2 ELSE 0, 1, IF swizzle03 THEN 0 ELSE 2, 3>>

\* variant: a row loop that stops one row early
RowLoopShort(f) == f.row + 1 < f.height

\* variant: a row loop that tests its condition after the body
RowLoopAfter(f) == f.row < f.height \/ f.row = 0

\* for (size_t row = 0; row < height; ++row)
RowLoop(f) == f.row < f.height

\* for (size_t column = 0; column < width; ++column)
ColumnLoop(f) == f.column < width(f)

\* the destination channels the two channel loops assign
WrittenChannels(f) ==
    (0..(minChannelCount(f) - 1)) \cup (srcChannelCount..(f.dstChannelCount - 1))

\* the index of the component a typed pointer at byte offset p designates
CellAt(T, p) == p \div SizeOf(T)

\* in[i] for the typed pointer in at byte offset p: outside the buffer the
\* read is undefined and its value indeterminate
ReadAt(buf, T, p, i) ==
    IF CellAt(T, p) + i < Len(buf) THEN buf[CellAt(T, p) + i + 1] ELSE Indet

\* the value the pair kernel assigns to out[channel]
reshapeImageValue(f, sbuf, bld, channel) ==
    IF channel < minChannelCount(f)
    THEN Rescale(f.dstT, f.srcT, bld,
                 ReadAt(sbuf, f.srcT, f.in, inds(f.swizzle03)[channel + 1]))
    ELSE getMaxValue(f.dstT)

\* the value the single-type kernel assigns to out[channel]
reshapeImageCopy(f, sbuf, channel) ==
    IF channel < minChannelCount(f)
    THEN ReadAt(sbuf, f.srcT, f.in, inds(f.swizzle03)[channel + 1])
    ELSE getDefaultAlpha(f.dstT)

PixelValue(f, sbuf, bld, channel) ==
    IF f.hdr = "pair" THEN reshapeImageValue(f, sbuf, bld, channel)
    ELSE reshapeImageCopy(f, sbuf, channel)

\* the destination after the channel loops of one pixel (a write past the
\* guard cells lands outside the model's memory)
WritePixel(f, sbuf, dbuf, bld) ==
    [i \in 1..Len(dbuf) |->
        IF (i - 1 - CellAt(f.dstT, f.out)) \in WrittenChannels(f)
        THEN PixelValue(f, sbuf, bld, i - 1 - CellAt(f.dstT, f.out))
        ELSE dbuf[i]]

\* in += srcChannelCount; out += dstChannelCount; ++column
AdvancePixel(f) ==
    [f EXCEPT !.in = f.in + srcChannelCount * SizeOf(f.srcT),
              !.out = f.out + f.dstChannelCount * SizeOf(f.dstT),
              !.column = f.column + 1]

\* src += srcBytesPerRow; dest += dstBytesPerRow; ++row, and the next row's
\* in = src, out = dest
AdvanceRow(f) ==
    [f EXCEPT !.src = f.src + f.srcBytesPerRow,
              !.dest = f.dest + f.dstBytesPerRow,
              !.in = f.src + f.srcBytesPerRow,
              !.out = f.dest + f.dstBytesPerRow,
              !.row = f.row + 1,
              !.column = 0]

\* the source components one pixel reads, the destination components it writes
PixelReads(f) ==
    {CellAt(f.srcT, f.in) + inds(f.swizzle03)[c + 1] : c \in 0..(minChannelCount(f) - 1)}

PixelWrites(f) == {CellAt(f.dstT, f.out) + c : c \in WrittenChannels(f)}

\* the source component out[channel] is assigned from, -1 for the maximum value
PixelSource(f, channel) ==
    IF channel < minChannelCount(f)
    THEN CellAt(f.srcT, f.in) + inds(f.swizzle03)[channel + 1]
    ELSE -1

\* the history of the writes after one more pixel
FlowAfter(f, fl) ==
    [k \in (DOMAIN fl) \cup PixelWrites(f) |->
        IF k \in PixelWrites(f) THEN PixelSource(f, k - CellAt(f.dstT, f.out)) ELSE fl[k]]

\* the frame on entry to the kernel
EnterKernel(hdr, dstT, srcT, srcBytesPerRow, dstBytesPerRow, dstChannelCount, height, swizzle03) ==
    [hdr |-> hdr, dstT |-> dstT, srcT |-> srcT, src |-> 0, dest |-> 0,
     srcBytesPerRow |-> srcBytesPerRow, dstBytesPerRow |-> dstBytesPerRow,
     dstChannelCount |-> dstChannelCount, height |-> height, swizzle03 |-> swizzle03,
     row |-> 0, column |-> 0, in |-> 0, out |-> 0]

\* the body of the column loop, for one pixel
Pixel(t) ==
    /\ pc[t] = "loop"
    /\ RowLoop(frame[Frame(t)])
    /\ ColumnLoop(frame[Frame(t)])
    /\ dst' = [dst EXCEPT ![t] = WritePixel(frame[Frame(t)], src[t], dst[t], build)]
    /\ frame' = [frame EXCEPT ![Frame(t)] = AdvancePixel(frame[Frame(t)])]
    /\ reads' = [reads EXCEPT ![t] = @ \cup PixelReads(frame[Frame(t)])]
    /\ flow' = [flow EXCEPT ![t] = FlowAfter(frame[Frame(t)], @)]
    /\ last' = [last EXCEPT ![t] = [row |-> frame[Frame(t)].row,
                                     column |-> frame[Frame(t)].column,
                                     in |-> frame[Frame(t)].in,
                                     out |-> frame[Frame(t)].out]]
    /\ UNCHANGED <<build, args, src, pc, ret, first, rs>>

\* the end of the column loop: on to the next row
NextRow(t) ==
    /\ pc[t] = "loop"
    /\ RowLoop(frame[Frame(t)])
    /\ ~ColumnLoop(frame[Frame(t)])
    /\ frame' = [frame EXCEPT ![Frame(t)] = AdvanceRow(frame[Frame(t)])]
    /\ UNCHANGED <<build, args, src, dst, pc, ret, reads, flow, last, first, rs>>

\* the end of the row loop: the kernel returns and the dispatcher returns true
Return(t) ==
    /\ pc[t] = "loop"
    /\ ~RowLoop(frame[Frame(t)])
    /\ pc' = [pc EXCEPT ![t] = "done"]
    /\ ret' = [ret EXCEPT ![t] = TRUE]
    /\ UNCHANGED <<build, args, src, dst, frame, reads, flow, last, first, rs>>

RECURSIVE RunFrom(_, _, _, _)
\* the kernel run from frame f to its return, one call alone: the destination
\* it leaves (each pixel is written before the next is begun)
RunNext(f, sbuf, dbuf, bld) ==
    IF Len(dbuf) >= 0 THEN RunFrom(f, sbuf, dbuf, bld) ELSE dbuf

RunFrom(f, sbuf, dbuf, bld) ==
    IF ~RowLoop(f) THEN dbuf
    ELSE IF ColumnLoop(f)
    THEN RunNext(AdvancePixel(f), sbuf, WritePixel(f, sbuf, dbuf, bld), bld)
    ELSE RunFrom(AdvanceRow(f), sbuf, dbuf, bld)

----------------------------------------------------------------------------
(* The dispatchers.                                                        *)

\* variant: a format switch whose default case is four channels
FormatChannelsDefault(format) ==
    CASE format = "RGB" -> 3 [] OTHER -> 4

\* switch (dst->format): the channel count, 0 for the default case
FormatChannels(format) ==
    CASE format = "RGB" -> 3 [] format = "RGBA" -> 4 [] OTHER -> 0

\* the nested switch over (dst->type, srcType): whether it selects a kernel
SelectsKernel(type, srcType) ==
    /\ type \in {"UBYTE", "FLOAT", "INT", "UINT"}
    /\ srcType \in {"UBYTE", "FLOAT", "INT", "UINT"}

\* the switch over dst->type of the single-type header
SelectsSingleKernel(type) == type \in {"UBYTE", "FLOAT", "INT", "UINT"}

\* whether the dispatcher of the call a reaches its kernel
Dispatches(a) ==
    IF a.hdr = "pair"
    THEN FormatChannels(a.format) # 0 /\ SelectsKernel(a.type, a.srcType)
    ELSE SelectsSingleKernel(a.type) /\ FormatChannels(a.format) # 0

\* variant: the row size always computed from the width argument
DstRowBytesOfWidth(a) ==
    IF a.hdr = "single" THEN a.dstBytesPerRow
    ELSE computeDataSize(a.format, a.type, a.width, 1, a.alignment)

\* the destination row stride the kernel is called with: computeDataSize of one
\* row of dst->stride ? dst->stride : width pixels in the pair header, the
\* caller's dstBytesPerRow in the single-type header
DstRowBytes(a) ==
    IF a.hdr = "single" THEN a.dstBytesPerRow
    ELSE computeDataSize(a.format, a.type, IF a.stride # 0 THEN a.stride ELSE a.width,
                         1, a.alignment)

\* the kernel call of the dispatcher: reshaper(dstBytes, srcBytes, srcBytesPerRow,
\* dstBytesPerRow, dstChannelCount, height, swizzle)
KernelFrame(a) ==
    EnterKernel(a.hdr, a.type, a.srcType, a.srcBytesPerRow, DstRowBytes(a),
                FormatChannels(a.format), a.height, a.swizzle)

\* the dispatcher, from its entry to its return false or to the kernel's entry
Dispatch(t) ==
    /\ IF Dispatches(args[t])
       THEN /\ pc' = [pc EXCEPT ![t] = "loop"]
            /\ ret' = ret
            /\ frame' = [frame EXCEPT ![Frame(t)] = KernelFrame(args[t])]
       ELSE /\ pc' = [pc EXCEPT ![t] = "done"]
            /\ ret' = [ret EXCEPT ![t] = FALSE]
            /\ frame' = frame
    /\ UNCHANGED <<build, args, src, dst, reads, flow, last, first, rs>>

\* bool reshapeImage(dst, srcType, srcBytes, srcBytesPerRow, width, height, swizzle)
reshapeImage(t) ==
    /\ pc[t] = "call"
    /\ args[t].hdr = "pair"
    /\ Dispatch(t)

\* bool reshapeImage(dst, srcType, srcBytes, srcBytesPerRow, dstBytesPerRow, height,
\* swizzle) of the single-type header; assert(srcType == dst->type) is its precondition
reshapeImageSingle(t) ==
    /\ pc[t] = "call"
    /\ args[t].hdr = "single"
    /\ args[t].srcType = args[t].type
    /\ Dispatch(t)

----------------------------------------------------------------------------
(* The generic reshape<componentType, srcChannelCount, dstChannelCount>.   *)

\* the table the header hdr fills the added channels from
MaxValueOf(hdr, T) == IF hdr = "pair" THEN getMaxValue(T) ELSE getDefaultAlpha(T)

\* const size_t srcWordCount = (numSrcBytes / sizeof(componentType)) / srcChannelCount
srcWordCount(T, srcCC, numSrcBytes) == (numSrcBytes \div SizeOf(T)) \div srcCC

\* out[channel] of the word the destination component i lies in, after the
\* word loop (in advances by srcCC components a word, out by dstCC)
reshapeValue(hdr, T, srcCC, dstCC, dest, source, numSrcBytes, i, word, channel) ==
    IF word >= srcWordCount(T, srcCC, numSrcBytes) THEN dest[i]
    ELSE IF channel < Min(srcCC, dstCC)
    THEN ReadAt(source, T, word * srcCC * SizeOf(T), channel)
    ELSE IF channel >= srcCC THEN MaxValueOf(hdr, T)
    ELSE dest[i]

\* the destination after the word loop of reshape
reshape(hdr, T, srcCC, dstCC, dest, source, numSrcBytes) ==
    [i \in 1..Len(dest) |->
        reshapeValue(hdr, T, srcCC, dstCC, dest, source, numSrcBytes, i,
                     (i - 1) \div dstCC, (i - 1) % dstCC)]

Reshape ==
    /\ rs.state = "call"
    /\ rs' = [rs EXCEPT !.dest = reshape(rs.hdr, rs.T, rs.srcChannelCount,
                                         rs.dstChannelCount, rs.dest, rs.src,
                                         rs.numSrcBytes),
                        !.state = "done"]
    /\ UNCHANGED <<build, args, src, dst, pc, frame, ret, reads, flow, last, first>>

----------------------------------------------------------------------------
(* The calls a client makes.                                               *)

SrcBuffer(a) ==
    Image(a.srcType, a.img, srcChannelCount, (a.srcBytesPerRow * a.height) \div BytesOf(a.srcType))

DstBuffer(a) == Canaries((DstRowBytes(a) * a.height) \div BytesOf(a.type) + GuardCells)

\* calls of the pair dispatcher with a supported format and supported types:
\* tightly packed source rows of w pixels
SupportedCalls ==
    { [hdr |-> "pair", format |-> fm, type |-> ty, srcType |-> st,
       srcBytesPerRow |-> w * srcChannelCount * BytesOf(st), dstBytesPerRow |-> 0,
       width |-> w, height |-> h, swizzle |-> sw, stride |-> sa[1] * (w + 1),
       alignment |-> sa[2], img |-> 1] :
        fm \in {"RGB", "RGBA"}, ty \in SupportedTypes, st \in SupportedTypes,
        w \in 1..MaxWidth, h \in 0..MaxHeight, sw \in BOOLEAN,
        sa \in {<<0, 1>>, <<0, 4>>, <<1, 1>>} }

\* calls with one row of four 8-bit pixels: 16 bytes, as many as one pixel of
\* a 4-byte component type
QuadCalls ==
    { [hdr |-> "pair", format |-> fm, type |-> ty, srcType |-> "UBYTE",
       srcBytesPerRow |-> 4 * srcChannelCount, dstBytesPerRow |-> 0,
       width |-> 4, height |-> 1, swizzle |-> sw, stride |-> 0,
       alignment |-> 1, img |-> 1] :
        fm \in {"RGB", "RGBA"}, ty \in SupportedTypes, sw \in BOOLEAN }

\* calls of the pair dispatcher with a format or a type outside those
UnsupportedCalls ==
    { [hdr |-> "pair", format |-> fm, type |-> ty, srcType |-> st,
       srcBytesPerRow |-> srcChannelCount * BytesOf(st), dstBytesPerRow |-> 0,
       width |-> 1, height |-> 1, swizzle |-> FALSE, stride |-> 0,
       alignment |-> 1, img |-> 1] :
        fm \in PixelDataFormats, ty \in PixelDataTypes, st \in PixelDataTypes } \
    SupportedCalls

\* calls of the single-type dispatcher: srcType is dst->type
SingleCalls ==
    { [hdr |-> "single", format |-> fm, type |-> ty, srcType |-> ty,
       srcBytesPerRow |-> w * srcChannelCount * BytesOf(ty),
       dstBytesPerRow |-> computeDataSize(fm, ty, w, 1, 1),
       width |-> w, height |-> h, swizzle |-> sw, stride |-> 0,
       alignment |-> 1, img |-> 1] :
        fm \in PixelDataFormats, ty \in PixelDataTypes,
        w \in 1..MaxWidth, h \in 0..MaxHeight, sw \in BOOLEAN }

Calls == SupportedCalls \cup QuadCalls \cup UnsupportedCalls \cup SingleCalls

\* reshape calls: every component type of the table, 3 or 4 channels on either
\* side, whole pixels and one trailing byte
ReshapeCalls ==
    { [hdr |-> hd, T |-> ty, srcChannelCount |-> sc, dstChannelCount |-> dc,
       numSrcBytes |-> n * sc * SizeOf(ty) + x,
       src |-> Image(ty, im, sc, (n * sc * SizeOf(ty) + x) \div SizeOf(ty)),
       dest |-> Canaries(n * dc + GuardCells), state |-> "call"] :
        hd \in {"pair", "single"},
        ty \in {"UBYTE", "USHORT", "INT", "UINT", "FLOAT"},
        sc \in {3, 4}, dc \in {3, 4}, n \in 0..MaxWords, x \in {0, 1}, im \in 1..2 }

\* two calls of the pair dispatcher at once, on buffers of their own: 4-byte
\* component types, different images
ConcurrentCalls(t) ==
    { [hdr |-> "pair", format |-> fm, type |-> ty, srcType |-> "UINT",
       srcBytesPerRow |-> w * srcChannelCount * BytesOf("UINT"), dstBytesPerRow |-> 0,
       width |-> w, height |-> h, swizzle |-> (t = 2), stride |-> 0,
       alignment |-> 1, img |-> t] :
        fm \in {"RGB", "RGBA"},
        ty \in IF t = 1 THEN {"UINT", "INT", "FLOAT"} ELSE {"UINT"},
        w \in IF t = 1 THEN {MaxWidth} ELSE 1..MaxWidth,
        h \in IF t = 1 THEN {MaxHeight} ELSE 1..MaxHeight }

\* the state on entry to the calls a1 of thread 1 and a2 of thread 2
\* (NoArgs: the thread makes no call)
InitCalls(a1, a2) ==
    /\ args = [t \in Threads |-> IF t = 1 THEN a1 ELSE a2]
    /\ src = [t \in Threads |-> IF args[t] = NoArgs THEN <<>> ELSE SrcBuffer(args[t])]
    /\ dst = [t \in Threads |-> IF args[t] = NoArgs THEN <<>> ELSE DstBuffer(args[t])]
    /\ pc = [t \in Threads |-> IF args[t] = NoArgs THEN "off" ELSE "call"]
    /\ frame = [t \in Threads |-> NoFrame]
    /\ ret = [t \in Threads |-> FALSE]
    /\ reads = [t \in Threads |-> {}]
    /\ flow = [t \in Threads |-> <<>>]
    /\ last = [t \in Threads |-> NoPixel]
    /\ first = [t \in Threads |-> NoFirst]

\* the calls whose result the client converts back: tightly packed, swizzle off
ConvertsBack(a) ==
    /\ a.hdr = "pair"
    /\ ~a.swizzle
    /\ a.stride = 0
    /\ a.alignment = 1
    /\ a.height > 0

\* the call that converts the result of the call a back: the two types
\* exchanged, the destination rows of a its source rows
BackCall(a) ==
    [a EXCEPT !.type = a.srcType, !.srcType = a.type, !.srcBytesPerRow = DstRowBytes(a)]

\* the client hands the destination of its finished call to a second call
\* that converts it back to the source type
RoundTrip(t) ==
    /\ pc[t] = "done"
    /\ ret[t] = TRUE
    /\ first[t] = NoFirst
    /\ ConvertsBack(args[t])
    /\ first' = [first EXCEPT ![t] = [args |-> args[t], src |-> src[t], flow |-> flow[t]]]
    /\ args' = [args EXCEPT ![t] = BackCall(args[t])]
    /\ src' = [src EXCEPT ![t] = SubSeq(dst[t], 1, Len(dst[t]) - GuardCells)]
    /\ dst' = [dst EXCEPT ![t] = DstBuffer(BackCall(args[t]))]
    /\ pc' = [pc EXCEPT ![t] = "call"]
    /\ ret' = [ret EXCEPT ![t] = FALSE]
    /\ reads' = [reads EXCEPT ![t] = {}]
    /\ flow' = [flow EXCEPT ![t] = <<>>]
    /\ last' = [last EXCEPT ![t] = NoPixel]
    /\ frame' = [frame EXCEPT ![Frame(t)] = NoFrame]
    /\ UNCHANGED <<build, rs>>

----------------------------------------------------------------------------
(* Specifications.                                                         *)

\* one call: of a dispatcher by thread 1, or of reshape
Init ==
    \/ /\ build \in Builds
       /\ \E a \in Calls : InitCalls(a, NoArgs)
       /\ rs = NoReshape
    \/ /\ build = "wrapping"
       /\ InitCalls(NoArgs, NoArgs)
       /\ rs \in ReshapeCalls

Step(t) ==
    \/ reshapeImage(t)
    \/ reshapeImageSingle(t)
    \/ Pixel(t)
    \/ NextRow(t)
    \/ Return(t)
    \/ RoundTrip(t)

Next ==
    \/ \E t \in Threads : Step(t)
    \/ Reshape

Spec == Init /\ [][Next]_vars

\* one call that runs: the kernel is straight-line code and loops the thread
\* keeps executing, so a step that can be taken is taken
SpecFair == Init /\ [][Next]_vars /\ WF_vars(Next)

\* two calls of the pair dispatcher, their steps interleaved
InitConcurrent ==
    /\ build \in Builds
    /\ \E a1 \in ConcurrentCalls(1), a2 \in ConcurrentCalls(2) : InitCalls(a1, a2)
    /\ rs = NoReshape

StepConcurrent(t) ==
    \/ reshapeImage(t)
    \/ Pixel(t)
    \/ NextRow(t)
    \/ Return(t)

NextConcurrent == \E t \in Threads : StepConcurrent(t)

SpecConcurrent == InitConcurrent /\ [][NextConcurrent]_vars

----------------------------------------------------------------------------
(* Properties.                                                             *)

IntegerTypes == {"UBYTE", "INT", "UINT"}

\* the call a is handed a supported format and supported types
Supported(a) ==
    /\ a.format \in {"RGB", "RGBA"}
    /\ a.type \in SupportedTypes
    /\ a.srcType \in SupportedTypes

\* the channels of the destination format of a supported call
DstChannels(a) == IF a.format = "RGB" THEN 3 ELSE 4

\* the pixels of a source row: its bytes over four source components
PixelsPerRow(a) == a.srcBytesPerRow \div (4 * SizeOf(a.srcType))

\* the index mapping of the swizzle
SwizzleMap == <<2, 1, 0, 3>>

\* the documented maximum values
DocumentedMax(T) ==
    CASE T = "UBYTE" -> IntCell(<<255>>)
      [] T = "USHORT" -> IntCell(<<0, 60>>)
      [] T = "INT" -> IntCell(<<255, 255, 255, 127>>)
      [] T = "UINT" -> IntCell(<<255, 255, 255, 255>>)
      [] T = "FLOAT" -> FloatCell(FALSE, 8388608, -23)

\* the call of thread t has returned true
Succeeded(t) == pc[t] = "done" /\ ret[t] = TRUE

\* C1: a dispatcher call with a format other than RGB and RGBA, or with a
\* destination or source type outside UBYTE, FLOAT, INT, UINT, never enters the
\* kernel: at every moment the destination buffer holds what it held before the
\* call, nothing is read or written, and once returned the result is false.
DispatchRejection ==
    \A t \in Threads :
        (args[t].hdr # "none" /\ ~Supported(args[t])) =>
            /\ pc[t] \in {"call", "done"}
            /\ dst[t] = DstBuffer(args[t])
            /\ Writes(t) = {}
            /\ reads[t] = {}
            /\ (pc[t] = "done" => ret[t] = FALSE)

\* a rejected call has returned: an RG destination, supported types
RejectedCall ==
    \E t \in Threads :
        /\ pc[t] = "done"
        /\ ret[t] = FALSE
        /\ args[t].hdr = "pair"
        /\ args[t].format = "RG"
        /\ args[t].type = "UBYTE"
        /\ args[t].srcType = "FLOAT"
        /\ Len(dst[t]) > GuardCells

\* C2: identity rescale.  After a call with the same source and destination
\* type and swizzle off, every destination channel c < min(4, dstChannelCount)
\* of every pixel holds exactly the value of the source channel c.
IdentityRescale ==
    \A t \in Threads :
        (Succeeded(t) /\ args[t].hdr = "pair" /\ args[t].type = args[t].srcType
            /\ ~args[t].swizzle) =>
            \A r \in 0..(args[t].height - 1), i \in 0..(PixelsPerRow(args[t]) - 1),
               c \in 0..(DstChannels(args[t]) - 1) :
                LET k == r * (DstRowBytes(args[t]) \div SizeOf(args[t].type))
                         + DstChannels(args[t]) * i + c
                    s == r * (args[t].srcBytesPerRow \div SizeOf(args[t].srcType)) + 4 * i + c
                IN  (s < Len(src[t]) /\ k < Len(dst[t]) /\ IsNum(src[t][s + 1])) =>
                        dst[t][k + 1] = src[t][s + 1]

\* the exact quotient floor(v * dstMaxValue / srcMaxValue) of a non-negative
\* source value, as an object of type dstT
ExactQuotient(dstT, srcT, c) ==
    IntCell(Low(DivB(MulB(c.b, DocumentedMax(dstT).b), DocumentedMax(srcT).b),
                SizeOf(dstT)))

\* C3: no overflow during rescale.  For integer source and destination types,
\* every destination component written from a non-negative source value v is
\* the exact quotient floor(v * dstMaxValue / srcMaxValue) (so srcMaxValue is
\* written as dstMaxValue).
NoRescaleOverflow ==
    \A t \in Threads :
        (Succeeded(t) /\ args[t].hdr = "pair" /\ args[t].type \in IntegerTypes
            /\ args[t].srcType \in IntegerTypes) =>
            \A k \in Writes(t) :
                (/\ k < Len(dst[t])
                 /\ flow[t][k] >= 0
                 /\ flow[t][k] < Len(src[t])
                 /\ src[t][flow[t][k] + 1].k = "int"
                 /\ (args[t].srcType = "INT" => src[t][flow[t][k] + 1].b[4] < 128)) =>
                    dst[t][k + 1] =
                        ExactQuotient(args[t].type, args[t].srcType, src[t][flow[t][k] + 1])

\* what the call a makes of the source value v
Converted(a, bld, v) == IF a.hdr = "pair" THEN Rescale(a.type, a.srcType, bld, v) ELSE v

\* C4: swizzle.  With swizzle enabled, the destination channels 0, 1, 2, 3 of
\* every pixel processed are written from the source channels 2, 1, 0, 3 of the
\* same pixel and hold their (rescaled) values: the mapping permutes the source
\* read index, the destination write index is the channel itself.
SwizzleCorrectness ==
    \A t \in Threads :
        (last[t] # NoPixel /\ args[t].swizzle) =>
            \A c \in 0..(DstChannels(args[t]) - 1) :
                LET k == CellAt(args[t].type, last[t].out) + c
                    s == CellAt(args[t].srcType, last[t].in) + SwizzleMap[c + 1]
                IN  /\ k \in Writes(t)
                    /\ flow[t][k] = s
                    /\ k < Len(dst[t]) =>
                          dst[t][k + 1] =
                              Converted(args[t], build,
                                        IF s < Len(src[t]) THEN src[t][s + 1] ELSE Indet)

\* a swizzled 8-bit pixel: (10, 20, 30, 255) written as (30, 20, 10, 255)
SwizzledPixel ==
    \E t \in Threads :
        /\ last[t] # NoPixel
        /\ args[t].swizzle
        /\ args[t].hdr = "pair"
        /\ args[t].format = "RGBA"
        /\ args[t].type = "UBYTE"
        /\ args[t].srcType = "UBYTE"
        /\ SubSeq(src[t], 1, 4) = <<IntCell(<<10>>), IntCell(<<20>>), IntCell(<<30>>),
                                     IntCell(<<255>>)>>
        /\ SubSeq(dst[t], 1, 4) = <<IntCell(<<30>>), IntCell(<<20>>), IntCell(<<10>>),
                                     IntCell(<<255>>)>>

\* C5: 8-bit unsigned to float.  After a call with a tightly packed 4-channel
\* UBYTE source of width >= 1 and height >= 1 and an RGBA FLOAT destination,
\* every channel of every one of the width * height destination pixels is
\* written and holds source / 255 (channels 0 and 2 exchanged with swizzle on).
UByteToFloat ==
    \A t \in Threads :
        (Succeeded(t) /\ args[t].hdr = "pair" /\ args[t].srcType = "UBYTE"
            /\ args[t].type = "FLOAT" /\ args[t].format = "RGBA"
            /\ args[t].width >= 1 /\ args[t].height >= 1
            /\ args[t].srcBytesPerRow = 4 * args[t].width) =>
            \A r \in 0..(args[t].height - 1), i \in 0..(args[t].width - 1), c \in 0..3 :
                LET k == r * (DstRowBytes(args[t]) \div 4) + 4 * i + c
                    s == r * args[t].srcBytesPerRow + 4 * i
                         + (IF args[t].swizzle THEN SwizzleMap[c + 1] ELSE c)
                IN  /\ k \in Writes(t)
                    /\ (k < Len(dst[t]) /\ s < Len(src[t]) /\ src[t][s + 1].k = "int") =>
                          dst[t][k + 1] = RoundRat(FALSE, src[t][s + 1].b, <<255>>, 0)

\* C6: channel expansion.  reshape<T, 3, 4> writes, for each of the
\* numSrcBytes / (sizeof(T) * 3) source pixels, the three source channels
\* verbatim and the documented maximum value of T as channel 3.
ChannelExpansion ==
    (rs.state = "done" /\ rs.srcChannelCount = 3 /\ rs.dstChannelCount = 4) =>
        \A word \in 0..((rs.numSrcBytes \div (SizeOf(rs.T) * 3)) - 1) :
            /\ \A c \in 0..2 : rs.dest[4 * word + c + 1] = rs.src[3 * word + c + 1]
            /\ rs.dest[4 * word + 4] = DocumentedMax(rs.T)

\* two float pixels expanded: alpha 1.0 behind each
ExpandedPixels ==
    /\ rs.state = "done"
    /\ rs.hdr = "pair"
    /\ rs.srcChannelCount = 3
    /\ rs.dstChannelCount = 4
    /\ rs.T = "FLOAT"
    /\ rs.numSrcBytes >= 24
    /\ rs.dest[4] = FloatCell(FALSE, 8388608, -23)
    /\ rs.dest[8] = FloatCell(FALSE, 8388608, -23)
    /\ rs.dest[5] = rs.src[4]

\* C7: channel truncation.  After a call with an 8-bit unsigned source, an RGB
\* 8-bit unsigned destination and swizzle off, pixel i of every row holds the
\* source channels 0, 1, 2 of source pixel i at the offsets 3i .. 3i+2 of the
\* destination row, and no destination component is written from a source
\* channel 3.
ChannelTruncation ==
    \A t \in Threads :
        (Succeeded(t) /\ args[t].format = "RGB" /\ args[t].type = "UBYTE"
            /\ args[t].srcType = "UBYTE" /\ ~args[t].swizzle) =>
            /\ \A r \in 0..(args[t].height - 1), i \in 0..(PixelsPerRow(args[t]) - 1),
                  c \in 0..2 :
                   /\ (r * DstRowBytes(args[t]) + 3 * i + c) \in Writes(t)
                   /\ dst[t][r * DstRowBytes(args[t]) + 3 * i + c + 1]
                          = src[t][r * args[t].srcBytesPerRow + 4 * i + c + 1]
            /\ \A k \in Writes(t) :
                   flow[t][k] \notin
                       {r * args[t].srcBytesPerRow + 4 * i + 3 :
                           r \in 0..(args[t].height - 1),
                           i \in 0..(PixelsPerRow(args[t]) - 1)}

\* (10, 20, 30, 255) truncated to (10, 20, 30), the next pixel behind it
TruncatedPixel ==
    \E t \in Threads :
        /\ Succeeded(t)
        /\ args[t].hdr = "pair"
        /\ args[t].format = "RGB"
        /\ args[t].type = "UBYTE"
        /\ args[t].srcType = "UBYTE"
        /\ ~args[t].swizzle
        /\ args[t].width = 2
        /\ args[t].height = 1
        /\ src[t][4] = IntCell(<<255>>)
        /\ SubSeq(dst[t], 1, 4) = <<IntCell(<<10>>), IntCell(<<20>>), IntCell(<<30>>),
                                     IntCell(<<40>>)>>

\* signed integers: x <= y, and |x - y|
SLe(x, y) ==
    IF x.neg THEN (~y.neg \/ Cmp(x.mag, y.mag) >= 0)
    ELSE (~y.neg /\ Cmp(x.mag, y.mag) <= 0)

Distance(x, y) ==
    IF x.neg # y.neg THEN AddB(x.mag, y.mag)
    ELSE IF Cmp(x.mag, y.mag) >= 0 THEN SubB(x.mag, y.mag)
    ELSE SubB(y.mag, x.mag)

\* the smaller of the maximum values of the integer types A and B
SmallerMax(A, B) ==
    IF Cmp(DocumentedMax(A).b, DocumentedMax(B).b) <= 0 THEN DocumentedMax(A).b
    ELSE DocumentedMax(B).b

\* v and r, values of type A, less than two units of the smaller of the
\* ranges of A and B apart
WithinOneUnit(A, B, v, r) ==
    Cmp(DivB(MulB(Distance(v, r), SmallerMax(A, B)), DocumentedMax(A).b), <<1>>) <= 0

\* the destination component k of the second call was written from a component
\* the first call wrote from a source component
Traced(t, k) ==
    /\ k < Len(dst[t])
    /\ flow[t][k] >= 0
    /\ flow[t][k] < Len(src[t])
    /\ flow[t][k] \in DOMAIN first[t].flow
    /\ first[t].flow[flow[t][k]] >= 0
    /\ first[t].flow[flow[t][k]] < Len(first[t].src)
    /\ first[t].src[first[t].flow[flow[t][k]] + 1].k = "int"

\* the source value the destination component k of the second call goes back to
Origin(t, k) == first[t].src[first[t].flow[flow[t][k]] + 1]

\* C8: round trip.  For integer types A and B, a value v converted from A to B
\* and back to A (swizzle off both times) comes back as an integer within one
\* unit of the smaller of the two ranges of v, and the values that come back
\* are non-decreasing in v.
RoundTripBound ==
    \A t \in Threads :
        (Succeeded(t) /\ first[t] # NoFirst /\ args[t].type \in IntegerTypes
            /\ args[t].srcType \in IntegerTypes) =>
            /\ \A k \in Writes(t) :
                   Traced(t, k) =>
                       /\ dst[t][k + 1].k = "int"
                       /\ WithinOneUnit(args[t].type, args[t].srcType,
                                        ValueOf(args[t].type, Origin(t, k).b),
                                        ValueOf(args[t].type, dst[t][k + 1].b))
            /\ \A k1, k2 \in Writes(t) :
                   (/\ Traced(t, k1)
                    /\ Traced(t, k2)
                    /\ dst[t][k1 + 1].k = "int"
                    /\ dst[t][k2 + 1].k = "int"
                    /\ SLe(ValueOf(args[t].type, Origin(t, k1).b),
                           ValueOf(args[t].type, Origin(t, k2).b))) =>
                       SLe(ValueOf(args[t].type, dst[t][k1 + 1].b),
                           ValueOf(args[t].type, dst[t][k2 + 1].b))

\* C9: empty image.  A call of the pair dispatcher with a supported format,
\* supported types and height 0 reads no source component and writes no
\* destination component at any moment, and its result is true.
EmptyImage ==
    \A t \in Threads :
        (args[t].hdr = "pair" /\ Supported(args[t]) /\ args[t].height = 0) =>
            /\ reads[t] = {}
            /\ Writes(t) = {}
            /\ dst[t] = DstBuffer(args[t])
            /\ pc[t] \in {"call", "loop", "done"}
            /\ (pc[t] = "done" => ret[t] = TRUE)

\* an empty image converted: the call has returned true
EmptyImageDone ==
    \E t \in Threads :
        /\ args[t].hdr = "pair"
        /\ Supported(args[t])
        /\ args[t].height = 0
        /\ args[t].width = 2
        /\ pc[t] = "done"
        /\ ret[t] = TRUE

\* C10: reentrancy.  Of two calls on buffers of their own whose steps are
\* interleaved in any order, each leaves in its destination buffer what it
\* leaves when it runs alone, and a call not yet begun finds its destination
\* as its caller left it.
Reentrancy ==
    \A t \in Threads :
        /\ pc[t] = "call" => dst[t] = DstBuffer(args[t])
        /\ pc[t] = "done" =>
               /\ ret[t] = TRUE
               /\ dst[t] = RunFrom(KernelFrame(args[t]), src[t], DstBuffer(args[t]), build)

\* the call of thread 1 has returned while the call of thread 2 is in its
\* second row
InterleavedCalls ==
    /\ Succeeded(1)
    /\ pc[2] = "loop"
    /\ last[2] # NoPixel
    /\ frame[Frame(2)].row = 1
    /\ dst[1][1] # Canary
    /\ dst[2][1] # Canary

\* C11: pixels per row.  The pair kernel processes exactly
\* srcBytesPerRow / (sizeof(source component) * 4) pixels in each row: pixel
\* number column of row number row is read 4 * column source components
\* behind row * srcBytesPerRow bytes and written dstChannelCount * column
\* destination components behind row * dstBytesPerRow bytes, and when the
\* column loop of a row ends that many pixels of the row have been processed.
PixelsPerRowProcessed ==
    \A t \in Threads :
        (args[t].hdr = "pair" /\ Supported(args[t])) =>
            /\ last[t] # NoPixel =>
                   /\ last[t].column < PixelsPerRow(args[t])
                   /\ last[t].in = last[t].row * args[t].srcBytesPerRow
                                   + last[t].column * 4 * SizeOf(args[t].srcType)
                   /\ last[t].out = last[t].row * DstRowBytes(args[t])
                                    + last[t].column * DstChannels(args[t])
                                      * SizeOf(args[t].type)
            /\ (pc[t] = "loop" /\ last[t] # NoPixel
                    /\ frame[Frame(t)].row = last[t].row + 1) =>
                   last[t].column = PixelsPerRow(args[t]) - 1
            /\ (Succeeded(t) /\ args[t].height >= 1 /\ PixelsPerRow(args[t]) >= 1) =>
                   /\ last[t].row = args[t].height - 1
                   /\ last[t].column = PixelsPerRow(args[t]) - 1

\* the steps of the call of thread t keep the order of the rows: the kernel
\* is entered at row 0 of both buffers, a pixel is processed in a row below
\* height, the row changes only to the next row, srcBytesPerRow and
\* dstBytesPerRow bytes further, and the call returns, true, only from row
\* number height
RowsInOrder(t) ==
    /\ (pc[t] = "call" /\ pc'[t] = "loop") =>
           /\ frame'[Frame(t)].row = 0
           /\ frame'[Frame(t)].src = 0
           /\ frame'[Frame(t)].dest = 0
    /\ (pc[t] = "loop" /\ last'[t] # last[t]) =>
           /\ frame[Frame(t)].row < args[t].height
           /\ last'[t].row = frame[Frame(t)].row
           /\ frame'[Frame(t)].row = frame[Frame(t)].row
    /\ (pc[t] = "loop" /\ pc'[t] = "loop"
            /\ frame'[Frame(t)].row # frame[Frame(t)].row) =>
           /\ frame[Frame(t)].row < args[t].height
           /\ frame'[Frame(t)].row = frame[Frame(t)].row + 1
           /\ frame'[Frame(t)].src = frame'[Frame(t)].row * args[t].srcBytesPerRow
           /\ frame'[Frame(t)].dest = frame'[Frame(t)].row * DstRowBytes(args[t])
    /\ (pc[t] = "loop" /\ pc'[t] = "done") =>
           /\ frame[Frame(t)].row = args[t].height
           /\ ret'[t] = TRUE
    /\ (pc'[t] = "done" /\ pc[t] # "done") => pc[t] = "loop"

\* C12: completion.  Every dispatcher call with a supported format and
\* supported types returns true, and before it does the kernel has gone through
\* the rows 0, 1, .., height - 1 in this order, each once, none left out.
Completion ==
    /\ \A t \in Threads : (pc[t] = "call" /\ Supported(args[t])) ~> Succeeded(t)
    /\ [][\A t \in Threads : Supported(args[t]) => RowsInOrder(t)]_vars

\* a call on an image of MaxHeight rows has returned, the last pixel it
\* processed in the last row
CompletedRows ==
    \E t \in Threads :
        /\ Succeeded(t)
        /\ args[t].hdr = "pair"
        /\ args[t].height = MaxHeight
        /\ args[t].width = MaxWidth
        /\ last[t] # NoPixel
        /\ last[t].row = MaxHeight - 1
        /\ frame[Frame(t)].row = MaxHeight

\* the row-size helper's result for one row of the destination of the call a:
\* of the descriptor's stride if that is not zero, else of the width argument
HelperRowSize(a) ==
    IF a.stride # 0 THEN computeDataSize(a.format, a.type, a.stride, 1, a.alignment)
    ELSE computeDataSize(a.format, a.type, a.width, 1, a.alignment)

\* C13: destination row stride selection.  In every call the dispatcher has
\* handed to the kernel, the kernel's dstBytesPerRow is the row-size helper's
\* result for one row of the descriptor's format, type and alignment, computed
\* from the descriptor's stride when that is not zero and from the width
\* argument only when it is zero; the rows the kernel writes begin that many
\* bytes apart.
StrideSelection ==
    \A t \in Threads :
        (args[t].hdr = "pair" /\ Supported(args[t]) /\ (pc[t] = "loop" \/ Succeeded(t))) =>
            /\ frame[Frame(t)].dstBytesPerRow = HelperRowSize(args[t])
            /\ last[t] # NoPixel =>
                   last[t].out = last[t].row * HelperRowSize(args[t])
                                 + last[t].column * DstChannels(args[t]) * SizeOf(args[t].type)

\* a call with an explicit stride of width + 1 pixels has returned: the second
\* row was written that many pixels behind the first
ExplicitStride ==
    \E t \in Threads :
        /\ Succeeded(t)
        /\ args[t].hdr = "pair"
        /\ args[t].type = "UBYTE"
        /\ args[t].srcType = "UBYTE"
        /\ args[t].format = "RGBA"
        /\ args[t].width = 2
        /\ args[t].stride = 3
        /\ args[t].height = 2
        /\ frame[Frame(t)].dstBytesPerRow = 12
        /\ last[t] = [row |-> 1, column |-> 1, in |-> 12, out |-> 16]

\* the call a is geometrically consistent: whole pixels in a source row, a
\* destination row that holds them
Consistent(a) ==
    /\ a.srcBytesPerRow % (4 * SizeOf(a.srcType)) = 0
    /\ DstRowBytes(a) >= PixelsPerRow(a) * DstChannels(a) * SizeOf(a.type)

\* the source components of the rows of the call a, and the destination
\* components of the pixels of its rows
SourceRows(a) ==
    {r * (a.srcBytesPerRow \div SizeOf(a.srcType)) + j :
        r \in 0..(a.height - 1), j \in 0..((a.srcBytesPerRow \div SizeOf(a.srcType)) - 1)}

DestinationPixels(a) ==
    {r * (DstRowBytes(a) \div SizeOf(a.type)) + j :
        r \in 0..(a.height - 1), j \in 0..(PixelsPerRow(a) * DstChannels(a) - 1)}

\* C14: bounds and frame.  In a geometrically consistent call with a supported
\* format and supported types the kernel reads only components of the source
\* rows and writes only the components of the pixels of the destination rows:
\* the padding of the destination rows and what lies behind the last row stay
\* as they were, and so does the source.
BoundsAndFrame ==
    \A t \in Threads :
        (args[t].hdr # "none" /\ Supported(args[t]) /\ Consistent(args[t])) =>
            /\ reads[t] \subseteq SourceRows(args[t])
            /\ Writes(t) \subseteq DestinationPixels(args[t])
            /\ \A k \in 1..Len(dst[t]) :
                   (k - 1) \notin DestinationPixels(args[t]) => dst[t][k] = Canary
            /\ first[t] = NoFirst => src[t] = SrcBuffer(args[t])

====
